---- MODULE Spec2Model ----
(***************************************************************************)
(* pixi-outdated: the run of src/main.rs as a state machine.               *)
(*                                                                         *)
(* One run lists the locked packages of every platform to check, builds    *)
(* the set of unique package keys, queries the version oracle once per     *)
(* key, builds the per-platform update lists from the cache and prints     *)
(* them (JSON, grouped by platform with a common section, or flat).        *)
(*                                                                         *)
(* Option<T> is modelled as a sequence: <<>> is None, <<v>> is Some(v).    *)
(* A std HashMap is a function; its iteration order is arbitrary, so a     *)
(* loop over a HashMap takes its order from \E over the permutations.      *)
(***************************************************************************)
EXTENDS Integers, Sequences, FiniteSets, TLC

\* ------------------------------------------------------------------------
\* Bounds and value universes
\* ------------------------------------------------------------------------

\* Longest list of locked packages of one platform in the lock file.
MaxLocked == 2

None == <<>>

Some(v) == <<v>>

Conda == "Conda"

Pypi == "Pypi"

\* Platform names that `Platform::from_str` accepts; any other name is an
\* error of the parse.
KnownPlatforms == {"linux-64", "osx-arm64"}

\* What --platform can be given on the command line.
PlatformArgs == KnownPlatforms \cup {"not-a-platform"}

\* Versions the remote repodata / PyPI can hold for a package.
RemoteVersions == {"2.0", "3.0"}

\* Total order of the version strings that occur (rattler's Version Ord).
VersionRank(v) ==
    CASE v = "1.0" -> 1
      [] v = "2.0" -> 2
      [] v = "3.0" -> 3

\* A parsed location: `ok` is whether Url::parse succeeded, host is
\* Url::host_str(), segs is Url::path_segments().
UrlForgeLinux ==
    [ok |-> TRUE, scheme |-> "https", host |-> Some("conda.anaconda.org"),
     segs |-> Some(<<"conda-forge", "linux-64", "x-1.0.conda">>)]

UrlForgeOsx ==
    [ok |-> TRUE, scheme |-> "https", host |-> Some("conda.anaconda.org"),
     segs |-> Some(<<"conda-forge", "osx-arm64", "x-2.0.conda">>)]

\* "./local/y-1.0.conda": a relative path, which Url::parse rejects.
UrlRelative ==
    [ok |-> FALSE, scheme |-> "", host |-> None, segs |-> None]

UrlPypi ==
    [ok |-> TRUE, scheme |-> "https", host |-> Some("files.pythonhosted.org"),
     segs |-> Some(<<"packages", "x-1.0.whl">>)]

\* The locked packages a lock file can hold for a platform
\* (rattler_lock::LockedPackageRef: Conda or Pypi): x from conda-forge in
\* two versions with different URLs, x from PyPI, and y with a location
\* that gives no channel.
LockedPackages ==
    { [name |-> "x", version |-> "1.0", kind |-> Conda, location |-> UrlForgeLinux],
      [name |-> "x", version |-> "2.0", kind |-> Conda, location |-> UrlForgeOsx],
      [name |-> "x", version |-> "1.0", kind |-> Pypi,  location |-> UrlPypi],
      [name |-> "y", version |-> "1.0", kind |-> Conda, location |-> UrlRelative] }

\* The package names that can be given on the command line.
PackageArgs == {{}, {"x"}}

\* ------------------------------------------------------------------------
\* Helpers
\* ------------------------------------------------------------------------

Range(s) == {s[i] : i \in 1..Len(s)}

EmptyMap == [k \in {} |-> None]

\* HashMap::insert
MapInsert(m, k, v) == [x \in DOMAIN m \cup {k} |-> IF x = k THEN v ELSE m[x]]

\* The sequences over S without repetition, of length at most n.
RECURSIVE DistinctSeqs(_, _)
DistinctSeqs(S, n) ==
    IF n = 0 THEN {<<>>}
    ELSE LET shorter == DistinctSeqs(S, n - 1)
         IN  shorter \cup
             UNION {{Append(s, x) : x \in S \ Range(s)} :
                        s \in {t \in shorter : Len(t) = n - 1}}

\* The orders in which a HashMap with key set S can be iterated.
Orders(S) == {s \in DistinctSeqs(S, Cardinality(S)) : Len(s) = Cardinality(S)}

\* Mutant: the channel holds the platform subdirectory as well.
extract_channel_url_subdir(source) ==
    IF source.ok
    THEN IF source.host = None THEN None
         ELSE IF source.segs = None THEN None
         ELSE IF source.segs[1] = <<>> THEN None
         ELSE Some(<<source.scheme, source.host[1],
                     SubSeq(source.segs[1], 1, 2)>>)
    ELSE None

\* src/conda.rs extract_channel_url: scheme + host + first path segment.
\* The channel string "scheme://host/seg" is the triple <<scheme, host, seg>>.
extract_channel_url(source) ==
    IF source.ok
    THEN IF source.host = None THEN None
         ELSE IF source.segs = None THEN None
         ELSE IF source.segs[1] = <<>> THEN None
         ELSE Some(<<source.scheme, source.host[1], Head(source.segs[1])>>)
    ELSE None

\* Platform::from_str succeeds
PlatformParses(p) == p \in KnownPlatforms

\* The subdirectories of a channel: noarch and one for each platform.
CondaSubdirs == {"noarch"} \cup KnownPlatforms

\* The repodata of a channel for a package: the versions each subdirectory
\* holds. The package is built per platform, in at most one version each.
Repodata ==
    {repodata \in [CondaSubdirs -> {{}} \cup {{v} : v \in RemoteVersions}] :
         repodata["noarch"] = {}}

\* What gateway.query finds at the remote: it fails, or it reads the
\* repodata of the subdirectories it is asked for.
CondaReplies ==
    {[failed |-> TRUE, repodata |-> [subdir \in CondaSubdirs |-> {}]]} \cup
    {[failed |-> FALSE, repodata |-> repodata] : repodata \in Repodata}

\* A reply of pypi.org: a non-success status, or the version of info.version.
PypiReplies ==
    {[failed |-> TRUE, version |-> ""]} \cup
    {[failed |-> FALSE, version |-> v] : v \in RemoteVersions}

\* Result<Option<String>>
Ok(value) == [ok |-> TRUE, value |-> value]

Err == [ok |-> FALSE, value |-> None]

\* The greatest version of a non-empty set (the fold of conda.rs 112-125).
MaxVersion(vs) == CHOOSE v \in vs : \A w \in vs : VersionRank(w) <= VersionRank(v)

\* conda.rs 50-57 and 87-94: the versions of the records gateway.query
\* returns, those of noarch and of each platform asked for.
QueriedVersions(platforms, repodata) ==
    UNION {repodata[subdir] : subdir \in {"noarch"} \cup Range(platforms)}

\* src/conda.rs get_latest_conda_version_multi_platform: every platform
\* string must parse, then one gateway query for noarch and all platforms,
\* and the greatest version of the records returned.
get_latest_conda_version_multi_platform(package_name, channel_url, platforms, reply) ==
    IF \E i \in 1..Len(platforms) : ~PlatformParses(platforms[i]) THEN Err
    ELSE IF reply.failed THEN Err
    ELSE IF QueriedVersions(platforms, reply.repodata) = {} THEN Ok(None)
    ELSE Ok(Some(MaxVersion(QueriedVersions(platforms, reply.repodata))))

\* src/pypi.rs get_latest_pypi_version: Result<String>
get_latest_pypi_version(package_name, reply) ==
    IF reply.failed THEN Err ELSE Ok(reply.version)

\* ------------------------------------------------------------------------
\* State
\* ------------------------------------------------------------------------

VARIABLES
    pc,                        \* position in run()
    cli,                       \* the parsed command line (Cli)
    platforms_to_check,        \* Vec<String>
    check_multiple_platforms,  \* bool
    lock_file,                 \* locked packages of the environment per platform
    list_idx,                  \* position of the listing loop in platforms_to_check
    platform_packages,         \* HashMap<String, Vec<PixiPackage>>
    unique_packages,           \* HashMap<PackageKey, String>
    visited,                   \* keys the query loop has iterated over
    version_cache,             \* HashMap<PackageKey, Option<String>>
    oracle_log,                \* per key, the oracle calls made: arguments and result
    platform_updates,          \* HashMap<String, Vec<PackageUpdate>>
    common_updates,            \* Vec<PackageUpdate>
    platform_specific_updates, \* HashMap<String, Vec<PackageUpdate>>
    stdout,                    \* what was printed, in order
    exit,                      \* "running", or the Result of run()
    lockfile_call,             \* a call of get_platforms_from_lockfile: arguments and files
    lockfile_result            \* None, or Some(the Result the call returned)

vars ==
    <<pc, cli, platforms_to_check, check_multiple_platforms, lock_file, list_idx,
      platform_packages, unique_packages, visited, version_cache, oracle_log,
      platform_updates, common_updates, platform_specific_updates, stdout, exit,
      lockfile_call, lockfile_result>>

\* The state of a call of get_platforms_from_lockfile, which run() does not make.
lockfile_vars == <<lockfile_call, lockfile_result>>

Init ==
    /\ pc = "start"
    /\ cli \in [platform : {None} \cup {Some(p) : p \in PlatformArgs},
                json     : BOOLEAN,
                packages : PackageArgs]
    /\ platforms_to_check = <<>>
    /\ check_multiple_platforms = FALSE
    /\ lock_file = EmptyMap
    /\ list_idx = 1
    /\ platform_packages = EmptyMap
    /\ unique_packages = EmptyMap
    /\ visited = {}
    /\ version_cache = EmptyMap
    /\ oracle_log = EmptyMap
    /\ platform_updates = EmptyMap
    /\ common_updates = <<>>
    /\ platform_specific_updates = EmptyMap
    /\ stdout = <<>>
    /\ exit = "running"
    /\ lockfile_call = [manifest_path |-> None, environment |-> None, files |-> EmptyMap]
    /\ lockfile_result = None

\* ------------------------------------------------------------------------
\* Listing (main.rs 126-257)
\* ------------------------------------------------------------------------

\* The platform lists environment.platforms() can yield: a non-empty set of
\* platforms, iterated in arbitrary order.
EnvironmentPlatforms ==
    UNION {Orders(S) : S \in (SUBSET KnownPlatforms) \ {{}}}

\* The lock files: for each platform, a list of at most MaxLocked packages.
LockFiles(platforms) ==
    [platforms -> DistinctSeqs(LockedPackages, MaxLocked)]

\* main.rs 126-152: the platforms to check and the lock file.
Start ==
    /\ pc = "start"
    /\ \E env_platforms \in EnvironmentPlatforms :
         /\ platforms_to_check' =
                IF cli.platform # None THEN <<cli.platform[1]>> ELSE env_platforms
         /\ lock_file' \in LockFiles(Range(platforms_to_check') \cap KnownPlatforms)
    /\ check_multiple_platforms' = (cli.platform = None)
    /\ pc' = "list"
    /\ UNCHANGED <<cli, list_idx, platform_packages, unique_packages, visited,
                   version_cache, oracle_log, platform_updates, common_updates,
                   platform_specific_updates, stdout, exit>>
    /\ UNCHANGED lockfile_vars

\* main.rs 193-236: LockedPackageRef to PixiPackage, or nothing when the
\* name is not among the names asked for.
ToPixiPackage(locked_pkg) ==
    [name    |-> locked_pkg.name,
     version |-> locked_pkg.version,
     kind    |-> locked_pkg.kind,
     source  |-> IF locked_pkg.kind = Conda THEN Some(locked_pkg.location) ELSE None]

PassesNameFilter(locked_pkg) ==
    cli.packages = {} \/ locked_pkg.name \in cli.packages

RECURSIVE ConvertPackages(_)
ConvertPackages(locked_deps) ==
    IF locked_deps = <<>> THEN <<>>
    ELSE IF PassesNameFilter(Head(locked_deps))
         THEN <<ToPixiPackage(Head(locked_deps))>> \o ConvertPackages(Tail(locked_deps))
         ELSE ConvertPackages(Tail(locked_deps))

\* main.rs 180-183: the locked packages of a platform, empty when the lock
\* file has none.
LockedDeps(platform) ==
    IF platform \in DOMAIN lock_file THEN lock_file[platform] ELSE <<>>

\* Mutant: a platform without a package left after the name filter keeps an
\* entry with an empty list.
ListPlatformKeepEmpty ==
    /\ pc = "list"
    /\ list_idx <= Len(platforms_to_check)
    /\ LET platform == platforms_to_check[list_idx]
           packages == ConvertPackages(LockedDeps(platform))
       IN  platform_packages' =
               IF ~PlatformParses(platform) THEN platform_packages
               ELSE IF LockedDeps(platform) = <<>> THEN platform_packages
               ELSE MapInsert(platform_packages, platform, packages)
    /\ list_idx' = list_idx + 1
    /\ UNCHANGED <<pc, cli, platforms_to_check, check_multiple_platforms, lock_file,
                   unique_packages, visited, version_cache, oracle_log,
                   platform_updates, common_updates, platform_specific_updates,
                   stdout, exit>>
    /\ UNCHANGED lockfile_vars

\* main.rs 164-250: one iteration of the listing loop.
ListPlatform ==
    /\ pc = "list"
    /\ list_idx <= Len(platforms_to_check)
    /\ LET platform == platforms_to_check[list_idx]
           packages == ConvertPackages(LockedDeps(platform))
       IN  platform_packages' =
               IF ~PlatformParses(platform) THEN platform_packages
               ELSE IF LockedDeps(platform) = <<>> THEN platform_packages
               ELSE IF packages = <<>> THEN platform_packages
               ELSE MapInsert(platform_packages, platform, packages)
    /\ list_idx' = list_idx + 1
    /\ UNCHANGED <<pc, cli, platforms_to_check, check_multiple_platforms, lock_file,
                   unique_packages, visited, version_cache, oracle_log,
                   platform_updates, common_updates, platform_specific_updates,
                   stdout, exit>>
    /\ UNCHANGED lockfile_vars

\* A printed item.
Printed(kind, platform, updates, entries) ==
    [kind |-> kind, platform |-> platform, updates |-> updates, entries |-> entries]

\* main.rs 252-257: nothing to check is a normal end of the run.
NoPackages ==
    /\ pc = "list"
    /\ list_idx > Len(platforms_to_check)
    /\ DOMAIN platform_packages = {}
    /\ stdout' = IF cli.json THEN stdout
                 ELSE Append(stdout, Printed("no-packages", "", <<>>, <<>>))
    /\ pc' = "done"
    /\ exit' = "Ok"
    /\ UNCHANGED <<cli, platforms_to_check, check_multiple_platforms, lock_file,
                   list_idx, platform_packages, unique_packages, visited,
                   version_cache, oracle_log, platform_updates, common_updates,
                   platform_specific_updates>>
    /\ UNCHANGED lockfile_vars

\* ------------------------------------------------------------------------
\* Planning (main.rs 259-289)
\* ------------------------------------------------------------------------

\* Mutant: the key holds the whole location instead of the channel.
KeyOfLocation(package) ==
    [name    |-> package.name,
     channel |-> IF package.source = None THEN None
                 ELSE IF package.source[1].ok
                      THEN Some(<<package.source[1].scheme, package.source[1].host,
                                  package.source[1].segs>>)
                      ELSE None,
     kind    |-> package.kind]

\* main.rs 273-282 and 392-401: the PackageKey of a package.
KeyOf(package) ==
    [name    |-> package.name,
     channel |-> IF package.source = None THEN None
                 ELSE extract_channel_url(package.source[1]),
     kind    |-> package.kind]

\* HashMap::entry(key).or_insert(value)
OrInsert(m, k, v) == IF k \in DOMAIN m THEN m ELSE MapInsert(m, k, v)

\* Mutant: a conda package without a channel is left out of the plan.
RECURSIVE CollectPackagesWithChannel(_, _)
CollectPackagesWithChannel(unique, packages) ==
    IF packages = <<>> THEN unique
    ELSE IF KeyOf(Head(packages)).kind = Conda /\ KeyOf(Head(packages)).channel = None
         THEN CollectPackagesWithChannel(unique, Tail(packages))
         ELSE CollectPackagesWithChannel(
                  OrInsert(unique, KeyOf(Head(packages)), Head(packages).version),
                  Tail(packages))

\* main.rs 272-288: the inner loop over the packages of one platform.
RECURSIVE CollectPackages(_, _)
CollectPackages(unique, packages) ==
    IF packages = <<>> THEN unique
    ELSE CollectPackages(OrInsert(unique, KeyOf(Head(packages)), Head(packages).version),
                         Tail(packages))

\* main.rs 271-289: the outer loop, over the platforms in iteration order.
RECURSIVE CollectPlatforms(_, _)
CollectPlatforms(unique, order) ==
    IF order = <<>> THEN unique
    ELSE CollectPlatforms(CollectPackages(unique, platform_packages[Head(order)]),
                          Tail(order))

\* main.rs 259-314: build unique_packages; the cache starts empty.
PlanQueries ==
    /\ pc = "list"
    /\ list_idx > Len(platforms_to_check)
    /\ DOMAIN platform_packages # {}
    /\ \E order \in Orders(DOMAIN platform_packages) :
           unique_packages' = CollectPlatforms(EmptyMap, order)
    /\ pc' = "query"
    /\ UNCHANGED <<cli, platforms_to_check, check_multiple_platforms, lock_file,
                   list_idx, platform_packages, visited, version_cache, oracle_log,
                   platform_updates, common_updates, platform_specific_updates,
                   stdout, exit>>
    /\ UNCHANGED lockfile_vars

\* ------------------------------------------------------------------------
\* Querying (main.rs 316-385)
\* ------------------------------------------------------------------------

\* An oracle call as the oracle sees it: the platforms it was handed, what
\* it found at the remote, and the result it gave.
OracleCall(platforms, reply, result) ==
    [platforms |-> platforms, reply |-> reply, result |-> result]

LogCall(log, key, call) ==
    MapInsert(log, key, IF key \in DOMAIN log THEN Append(log[key], call) ELSE <<call>>)

\* Mutant: a failed lookup leaves the cache as it is.
CacheCondaResultSkipError(cache, key, latest_result) ==
    IF latest_result.ok THEN MapInsert(cache, key, latest_result.value)
    ELSE cache

\* Mutant: the cache is keyed by the package name alone, so the result is
\* written to every entry of that name.
CacheCondaResultByName(cache, key, latest_result) ==
    [k \in DOMAIN cache \cup {key} |->
         IF k.name = key.name
         THEN (IF latest_result.ok THEN latest_result.value ELSE None)
         ELSE cache[k]]

\* main.rs 341-351: Ok(latest) is cached as it is, an error as None.
CacheCondaResult(cache, key, latest_result) ==
    IF latest_result.ok THEN MapInsert(cache, key, latest_result.value)
    ELSE MapInsert(cache, key, None)

\* main.rs 364-374: Ok(latest) is cached as Some(latest), an error as None.
CachePypiResult(cache, key, latest_result) ==
    IF latest_result.ok THEN MapInsert(cache, key, Some(latest_result.value))
    ELSE MapInsert(cache, key, None)

\* Mutant: the lookup is handed the platforms that have a package list.
platform_refs_listed ==
    SelectSeq(platforms_to_check, LAMBDA p : p \in DOMAIN platform_packages)

\* main.rs 330-331: the platforms handed to the conda lookup.
platform_refs == platforms_to_check

\* Mutant: a conda key without a channel is looked up as well.
QueryCondaAnyChannel(key) ==
    /\ key.kind = Conda
    /\ \E reply \in CondaReplies :
         LET latest_result ==
                 get_latest_conda_version_multi_platform(
                     key.name, key.channel, platform_refs, reply)
         IN  /\ version_cache' = CacheCondaResult(version_cache, key, latest_result)
             /\ oracle_log' = LogCall(oracle_log, key,
                                      OracleCall(platform_refs, reply, latest_result))

\* main.rs 323-358: a conda key is looked up on all platforms to check when
\* it has a channel, and skipped when it has none.
QueryConda(key) ==
    /\ key.kind = Conda
    /\ IF key.channel # None
       THEN \E reply \in CondaReplies :
              LET latest_result ==
                      get_latest_conda_version_multi_platform(
                          key.name, key.channel[1], platform_refs, reply)
              IN  /\ version_cache' = CacheCondaResult(version_cache, key, latest_result)
                  /\ oracle_log' = LogCall(oracle_log, key,
                                           OracleCall(platform_refs, reply, latest_result))
       ELSE UNCHANGED <<version_cache, oracle_log>>

\* main.rs 359-375: a PyPI key is looked up by name alone.
QueryPypi(key) ==
    /\ key.kind = Pypi
    /\ \E reply \in PypiReplies :
         LET latest_result == get_latest_pypi_version(key.name, reply)
         IN  /\ version_cache' = CachePypiResult(version_cache, key, latest_result)
             /\ oracle_log' = LogCall(oracle_log, key, OracleCall(<<>>, reply, latest_result))

\* Mutant: a key whose lookup left no version in the cache is tried again.
KeysToVisitRetry ==
    DOMAIN unique_packages \
        {k \in visited : k \in DOMAIN version_cache /\ version_cache[k] # None}

\* Mutant: the loop ends at the first lookup that failed.
KeysToVisitUntilError ==
    IF \E k \in DOMAIN oracle_log : ~oracle_log[k][1].result.ok
    THEN {}
    ELSE DOMAIN unique_packages \ visited

\* The keys the loop of main.rs 317 has still to iterate over.
KeysToVisit == DOMAIN unique_packages \ visited

\* main.rs 317-381: one iteration of the query loop, over the next key of
\* unique_packages.keys() in the map's iteration order.
QueryPackage ==
    /\ pc = "query"
    /\ \E key \in KeysToVisit :
         /\ QueryConda(key) \/ QueryPypi(key)
         /\ visited' = visited \cup {key}
    /\ UNCHANGED <<pc, cli, platforms_to_check, check_multiple_platforms, lock_file,
                   list_idx, platform_packages, unique_packages, platform_updates,
                   common_updates, platform_specific_updates, stdout, exit>>
    /\ UNCHANGED lockfile_vars

\* ------------------------------------------------------------------------
\* Per-platform updates (main.rs 387-423)
\* ------------------------------------------------------------------------

PackageUpdate(name, installed_version, latest_version) ==
    [name |-> name, installed_version |-> installed_version,
     latest_version |-> latest_version]

\* Mutant: an update is reported also when the latest version is installed.
UpdateOfAnyLatest(cache, package) ==
    LET key == KeyOf(package)
    IN  IF key \in DOMAIN cache /\ cache[key] # None
        THEN <<PackageUpdate(package.name, package.version, cache[key][1])>>
        ELSE <<>>

\* Mutant: the installed version is taken from the plan, not from the package.
UpdateOfPlannedVersion(cache, package) ==
    LET key == KeyOf(package)
    IN  IF key \in DOMAIN cache /\ cache[key] # None
        THEN IF cache[key][1] # unique_packages[key]
             THEN <<PackageUpdate(package.name, unique_packages[key], cache[key][1])>>
             ELSE <<>>
        ELSE <<>>

\* main.rs 403-419: the update of one package, if the cache has a latest
\* version for its key that differs from the installed one.
UpdateOf(cache, package) ==
    LET key == KeyOf(package)
    IN  IF key \in DOMAIN cache /\ cache[key] # None
        THEN IF cache[key][1] # package.version
             THEN <<PackageUpdate(package.name, package.version, cache[key][1])>>
             ELSE <<>>
        ELSE <<>>

\* Mutant: an update is put in front of the list instead of pushed.
RECURSIVE PlatformPackageUpdatesReversed(_, _)
PlatformPackageUpdatesReversed(cache, packages) ==
    IF packages = <<>> THEN <<>>
    ELSE PlatformPackageUpdatesReversed(cache, Tail(packages))
             \o UpdateOf(cache, Head(packages))

\* main.rs 389-420: the updates of one platform, in package order.
RECURSIVE PlatformPackageUpdates(_, _)
PlatformPackageUpdates(cache, packages) ==
    IF packages = <<>> THEN <<>>
    ELSE UpdateOf(cache, Head(packages)) \o PlatformPackageUpdates(cache, Tail(packages))

\* Mutant: the diff takes the entries out of the cache as it reads them.
BuildUpdatesDrainCache ==
    /\ pc = "query"
    /\ KeysToVisit = {}
    /\ platform_updates' =
           [platform \in DOMAIN platform_packages |->
                PlatformPackageUpdates(version_cache, platform_packages[platform])]
    /\ version_cache' = EmptyMap
    /\ pc' = "output"
    /\ UNCHANGED <<cli, platforms_to_check, check_multiple_platforms, lock_file,
                   list_idx, platform_packages, unique_packages, visited,
                   oracle_log, common_updates,
                   platform_specific_updates, stdout, exit>>
    /\ UNCHANGED lockfile_vars

\* main.rs 383-423: after the last key, the updates of every platform.
BuildUpdates ==
    /\ pc = "query"
    /\ KeysToVisit = {}
    /\ platform_updates' =
           [platform \in DOMAIN platform_packages |->
                PlatformPackageUpdates(version_cache, platform_packages[platform])]
    /\ pc' = "output"
    /\ UNCHANGED <<cli, platforms_to_check, check_multiple_platforms, lock_file,
                   list_idx, platform_packages, unique_packages, visited,
                   version_cache, oracle_log, common_updates,
                   platform_specific_updates, stdout, exit>>
    /\ UNCHANGED lockfile_vars

\* ------------------------------------------------------------------------
\* Output (main.rs 425-517)
\* ------------------------------------------------------------------------

\* Mutant: two updates are the same when they are of the same package name.
SameUpdateByName(a, b) == a.name = b.name

\* main.rs 446-448 and 466-468: the same name, installed and latest version.
SameUpdate(a, b) ==
    /\ a.name = b.name
    /\ a.installed_version = b.installed_version
    /\ a.latest_version = b.latest_version

\* Mutant: every update of the reference platform counts as common.
IsCommonOfReference(updates, platforms, update) == TRUE

\* main.rs 443-451: the update is in the list of every platform after the first.
IsCommon(updates, platforms, update) ==
    \A i \in 2..Len(platforms) :
        \E j \in 1..Len(updates[platforms[i]]) :
            SameUpdate(updates[platforms[i]][j], update)

\* Mutant: without the test that there is more than one platform.
CommonUpdatesAnyCount(updates, platforms) ==
    IF platforms = <<>> THEN <<>>
    ELSE SelectSeq(updates[Head(platforms)],
                   LAMBDA update : IsCommon(updates, platforms, update))

\* main.rs 435-458: the updates of the first platform of `platforms` (the
\* keys of platform_updates in iteration order) that are common.
CommonUpdates(updates, platforms) ==
    IF platforms = <<>> THEN <<>>
    ELSE SelectSeq(updates[Head(platforms)],
                   LAMBDA update : IsCommon(updates, platforms, update)
                                   /\ Len(platforms) > 1)

\* main.rs 462-472: the updates of a list that match no common update.
Specific(platform_list, common) ==
    SelectSeq(platform_list,
              LAMBDA update : ~ \E i \in 1..Len(common) : SameUpdate(common[i], update))

\* Mutant: a platform keeps its entry when its list becomes empty.
PlatformSpecificUpdatesKeepEmpty(updates, common) ==
    [platform \in DOMAIN updates |-> Specific(updates[platform], common)]

\* main.rs 460-477: the platform-specific lists that are not empty.
PlatformSpecificUpdates(updates, common) ==
    [platform \in {p \in DOMAIN updates : Specific(updates[p], common) # <<>>} |->
         Specific(updates[platform], common)]

\* One line per update: "name: installed -> latest".
RECURSIVE UpdateLines(_)
UpdateLines(updates) ==
    IF updates = <<>> THEN <<>>
    ELSE <<Printed("update", "", <<Head(updates)>>, <<>>)>> \o UpdateLines(Tail(updates))

\* main.rs 480-489: the common section, when there is a common update.
CommonSection(common) ==
    IF common # <<>>
    THEN <<Printed("all-platforms", "", <<>>, <<>>)>> \o UpdateLines(common)
    ELSE <<>>

\* main.rs 491-504: the sections of the platforms, in the order of the
\* platforms to check.
RECURSIVE PlatformSections(_, _)
PlatformSections(platforms, specific) ==
    IF platforms = <<>> THEN <<>>
    ELSE (IF Head(platforms) \in DOMAIN specific /\ specific[Head(platforms)] # <<>>
          THEN <<Printed("platform", Head(platforms), <<>>, <<>>)>>
                   \o UpdateLines(specific[Head(platforms)])
          ELSE <<>>)
         \o PlatformSections(Tail(platforms), specific)

\* Mutant: the JSON document holds the lists left after coalescing.
OutputJsonCoalesced ==
    /\ cli.json
    /\ \E order \in Orders(DOMAIN platform_updates) :
         stdout' = Append(stdout,
                          Printed("json", "", <<>>,
                                  [i \in 1..Len(order) |->
                                       [platform |-> order[i],
                                        updates  |->
                                            Specific(platform_updates[order[i]],
                                                     CommonUpdates(platform_updates,
                                                                   order))]]))
    /\ UNCHANGED <<common_updates, platform_specific_updates>>

\* main.rs 426-428: the map of all platforms as JSON, its keys in the
\* iteration order of the map.
OutputJson ==
    /\ cli.json
    /\ \E order \in Orders(DOMAIN platform_updates) :
         stdout' = Append(stdout,
                          Printed("json", "", <<>>,
                                  [i \in 1..Len(order) |->
                                       [platform |-> order[i],
                                        updates  |-> platform_updates[order[i]]]]))
    /\ UNCHANGED <<common_updates, platform_specific_updates>>

\* main.rs 429-504: common and platform-specific updates, in sections.
OutputCoalesced ==
    /\ ~cli.json
    /\ check_multiple_platforms
    /\ \E platforms \in Orders(DOMAIN platform_updates) :
         common_updates' = CommonUpdates(platform_updates, platforms)
    /\ platform_specific_updates' =
           PlatformSpecificUpdates(platform_updates, common_updates')
    /\ stdout' = stdout \o CommonSection(common_updates')
                        \o PlatformSections(platforms_to_check,
                                            platform_specific_updates')

\* main.rs 505-515: the updates of the one platform, without a header.
OutputSingle ==
    /\ ~cli.json
    /\ ~check_multiple_platforms
    /\ \E platform \in DOMAIN platform_updates :
         stdout' = stdout \o UpdateLines(platform_updates[platform])
    /\ UNCHANGED <<common_updates, platform_specific_updates>>

\* main.rs 425-517
Output ==
    /\ pc = "output"
    /\ OutputJson \/ OutputCoalesced \/ OutputSingle
    /\ pc' = "done"
    /\ exit' = "Ok"
    /\ UNCHANGED <<cli, platforms_to_check, check_multiple_platforms, lock_file,
                   list_idx, platform_packages, unique_packages, visited,
                   version_cache, oracle_log, platform_updates>>
    /\ UNCHANGED lockfile_vars

Next ==
    \/ Start
    \/ ListPlatform
    \/ NoPackages
    \/ PlanQueries
    \/ QueryPackage
    \/ BuildUpdates
    \/ Output

Spec == Init /\ [][Next]_vars

\* ------------------------------------------------------------------------
\* get_platforms_from_lockfile (lockfile.rs 6-40)
\* ------------------------------------------------------------------------

\* A path is the sequence of its components. The manifest paths a caller
\* can give: none, "", "pixi.toml" and "proj/pixi.toml".
ManifestPaths ==
    {None, Some(<<>>), Some(<<"pixi.toml">>), Some(<<"proj", "pixi.toml">>)}

\* The environment names a caller can give.
EnvironmentArgs == {None, Some("default"), Some("test"), Some("nonexistent")}

\* The places where a lock file is looked for.
LockfilePaths == {<<"pixi.lock">>, <<"proj", "pixi.lock">>}

\* What is found at such a place: no file, a file that is not a lock file,
\* or a lock file with its environments, each with the list of its
\* platforms, which can be empty.
LockfileContents ==
    {[state |-> "missing", environments |-> EmptyMap],
     [state |-> "invalid", environments |-> EmptyMap]} \cup
    {[state |-> "parsed", environments |-> environments] :
         environments \in
             UNION {[names -> DistinctSeqs(KnownPlatforms, Cardinality(KnownPlatforms))] :
                        names \in SUBSET {"default", "test"}}}

\* Result<Vec<String>>
PlatformsOk(platforms) == [ok |-> TRUE, platforms |-> platforms, error |-> ""]

PlatformsErr(error) == [ok |-> FALSE, platforms |-> <<>>, error |-> error]

\* Path::parent: None for the empty path, else the path without its last
\* component.
parent(path) ==
    IF path = <<>> THEN None ELSE Some(SubSeq(path, 1, Len(path) - 1))

\* Mutant: an environment without platforms gives Ok of the empty list.
get_platforms_from_lockfile_allow_empty(manifest_path, environment, files) ==
    LET manifest_dir ==
            IF manifest_path # None THEN parent(manifest_path[1]) ELSE Some(<<>>)
    IN  IF manifest_dir = None THEN PlatformsErr("Failed to get manifest directory")
        ELSE LET lockfile_path == manifest_dir[1] \o <<"pixi.lock">>
                 lockfile == files[lockfile_path]
                 env_name == IF environment # None THEN environment[1] ELSE "default"
             IN  IF lockfile.state # "parsed"
                 THEN PlatformsErr("Failed to read lockfile")
                 ELSE IF env_name \notin DOMAIN lockfile.environments
                 THEN PlatformsErr("Environment not found in lockfile")
                 ELSE PlatformsOk(lockfile.environments[env_name])

\* lockfile.rs 6-40
get_platforms_from_lockfile(manifest_path, environment, files) ==
    LET manifest_dir ==
            IF manifest_path # None THEN parent(manifest_path[1]) ELSE Some(<<>>)
    IN  IF manifest_dir = None THEN PlatformsErr("Failed to get manifest directory")
        ELSE LET lockfile_path == manifest_dir[1] \o <<"pixi.lock">>
                 lockfile == files[lockfile_path]
                 env_name == IF environment # None THEN environment[1] ELSE "default"
             IN  IF lockfile.state # "parsed"
                 THEN PlatformsErr("Failed to read lockfile")
                 ELSE IF env_name \notin DOMAIN lockfile.environments
                 THEN PlatformsErr("Environment not found in lockfile")
                 ELSE IF lockfile.environments[env_name] = <<>>
                 THEN PlatformsErr("No platforms found for environment")
                 ELSE PlatformsOk(lockfile.environments[env_name])

\* A caller is about to call the function: any arguments, any files.
InitLockfile ==
    /\ lockfile_call \in [manifest_path : ManifestPaths,
                          environment   : EnvironmentArgs,
                          files         : [LockfilePaths -> LockfileContents]]
    /\ lockfile_result = None
    /\ pc = "start"
    /\ cli = [platform |-> None, json |-> FALSE, packages |-> {}]
    /\ platforms_to_check = <<>>
    /\ check_multiple_platforms = FALSE
    /\ lock_file = EmptyMap
    /\ list_idx = 1
    /\ platform_packages = EmptyMap
    /\ unique_packages = EmptyMap
    /\ visited = {}
    /\ version_cache = EmptyMap
    /\ oracle_log = EmptyMap
    /\ platform_updates = EmptyMap
    /\ common_updates = <<>>
    /\ platform_specific_updates = EmptyMap
    /\ stdout = <<>>
    /\ exit = "running"

\* The call returns.
CallGetPlatforms ==
    /\ lockfile_result = None
    /\ lockfile_result' =
           Some(get_platforms_from_lockfile(lockfile_call.manifest_path,
                                            lockfile_call.environment,
                                            lockfile_call.files))
    /\ UNCHANGED <<lockfile_call, pc, cli, platforms_to_check,
                   check_multiple_platforms, lock_file, list_idx, platform_packages,
                   unique_packages, visited, version_cache, oracle_log,
                   platform_updates, common_updates, platform_specific_updates,
                   stdout, exit>>

NextLockfile == CallGetPlatforms

SpecLockfile == InitLockfile /\ [][NextLockfile]_vars

\* ------------------------------------------------------------------------
\* Properties
\* ------------------------------------------------------------------------

\* The run has built the per-platform updates.
Diffed == pc \in {"output", "done"} /\ DOMAIN platform_packages # {}

\* The run has planned its queries.
Planned == pc \in {"query", "output", "done"} /\ DOMAIN platform_packages # {}

\* The run has ended after coalescing (text output of a run without --platform).
Coalesced == pc = "done" /\ Diffed /\ ~cli.json /\ check_multiple_platforms

\* The identity of a package record: name, origin identity, ecosystem.
IdentityOf(package) ==
    <<package.name,
      IF package.source = None THEN None ELSE extract_channel_url(package.source[1]),
      package.kind>>

IdentityOfKey(key) == <<key.name, key.channel, key.kind>>

\* The identities of the records of a platform, and of all platforms.
IdentitiesOn(platform) ==
    {IdentityOf(platform_packages[platform][i]) :
         i \in 1..Len(platform_packages[platform])}

AllIdentities == UNION {IdentitiesOn(platform) : platform \in DOMAIN platform_packages}

\* C1: the version oracle is called at most once for each key (name,
\* channel, kind), in every state of the query phase and after it.
C1_AtMostOneQueryPerIdentity ==
    \A key \in DOMAIN oracle_log : Len(oracle_log[key]) <= 1

\* C1 witness: a key found in the records of two platforms, and in two
\* records over all, has been looked up and the run has ended.
C1_Witness ==
    /\ pc = "done"
    /\ \E key \in DOMAIN oracle_log :
         /\ Len(oracle_log[key]) = 1
         /\ \E p, q \in DOMAIN platform_packages :
              /\ p # q
              /\ IdentityOfKey(key) \in IdentitiesOn(p) \cap IdentitiesOn(q)

\* C2: after planning, unique_packages has exactly one key for each distinct
\* (name, origin identity, ecosystem) triple of the records of all platforms:
\* as many keys as triples, and no triple under two keys.
C2_OneKeyPerTriple ==
    Planned =>
        /\ Cardinality(DOMAIN unique_packages) = Cardinality(AllIdentities)
        /\ {IdentityOfKey(key) : key \in DOMAIN unique_packages} = AllIdentities

\* C2 witness: two platforms hold records of the same triple with different
\* locations, next to a record of another triple.
C2_Witness ==
    /\ Planned
    /\ Cardinality(AllIdentities) >= 2
    /\ \E p, q \in DOMAIN platform_packages :
         \E i \in 1..Len(platform_packages[p]), j \in 1..Len(platform_packages[q]) :
             /\ p # q
             /\ platform_packages[p][i].source # platform_packages[q][j].source
             /\ IdentityOf(platform_packages[p][i]) = IdentityOf(platform_packages[q][j])

\* The cache holds a latest version for the record's identity, and it is not
\* the installed version.
HasNewer(package) ==
    \E key \in DOMAIN version_cache :
        /\ IdentityOfKey(key) = IdentityOf(package)
        /\ version_cache[key] # None
        /\ version_cache[key][1] # package.version

LatestFor(package) ==
    LET key == CHOOSE k \in DOMAIN version_cache : IdentityOfKey(k) = IdentityOf(package)
    IN  version_cache[key][1]

\* C3: for every platform, the update list holds one record for each
\* package record whose identity has a cached latest version other than the
\* installed one -- {name, installed version, latest} -- and nothing else.
C3_DiffEmitsIffNewer ==
    Diffed =>
        \A platform \in DOMAIN platform_packages :
            LET packages == platform_packages[platform]
                updates  == platform_updates[platform]
                newer    == {i \in 1..Len(packages) : HasNewer(packages[i])}
            IN  /\ Len(updates) = Cardinality(newer)
                /\ Range(updates) =
                       {PackageUpdate(packages[i].name, packages[i].version,
                                      LatestFor(packages[i])) : i \in newer}

\* C3 witness: one platform holds a record with a newer version, and some
\* platform holds a record that is up to date and one without a cache entry.
C3_Witness ==
    /\ Diffed
    /\ \E platform \in DOMAIN platform_packages :
         \E i \in 1..Len(platform_packages[platform]) :
             HasNewer(platform_packages[platform][i])
    /\ \E platform \in DOMAIN platform_packages :
         \E i \in 1..Len(platform_packages[platform]) :
             \E key \in DOMAIN version_cache :
                 /\ IdentityOfKey(key) = IdentityOf(platform_packages[platform][i])
                 /\ version_cache[key] = Some(platform_packages[platform][i].version)
    /\ \E platform \in DOMAIN platform_packages :
         \E i \in 1..Len(platform_packages[platform]) :
             \A key \in DOMAIN version_cache :
                 IdentityOfKey(key) # IdentityOf(platform_packages[platform][i])

\* The update is in the list, by name, installed and latest version.
Occurs(update, list) == \E i \in 1..Len(list) : list[i] = update

\* The records of a reference platform's list that occur in the list of
\* every other platform, in the order of the list.
CommonOf(reference) ==
    SelectSeq(platform_updates[reference],
              LAMBDA update :
                  \A other \in DOMAIN platform_updates \ {reference} :
                      Occurs(update, platform_updates[other]))

\* C4: with more than one platform in platform_updates, common_updates is
\* the list of the records of one platform (the reference) that occur in the
\* list of every other platform, in the order of the reference's list.
C4_CommonIsReferenceIntersection ==
    (Coalesced /\ Cardinality(DOMAIN platform_updates) > 1) =>
        \E reference \in DOMAIN platform_updates :
            common_updates = CommonOf(reference)

\* C4 witness: two platforms, a record that is common and a record of the
\* same package name that is in one platform's list only.
C4_Witness ==
    /\ Coalesced
    /\ Cardinality(DOMAIN platform_updates) > 1
    /\ common_updates # <<>>
    /\ \E platform \in DOMAIN platform_updates :
         \E i \in 1..Len(platform_updates[platform]) :
             /\ ~Occurs(platform_updates[platform][i], common_updates)
             /\ \E j \in 1..Len(common_updates) :
                    common_updates[j].name = platform_updates[platform][i].name

\* How often the update occurs in the list.
Count(update, list) == Cardinality({i \in 1..Len(list) : list[i] = update})

\* The platform's entry of platform_specific_updates, empty when it has none.
SpecificOf(platform) ==
    IF platform \in DOMAIN platform_specific_updates
    THEN platform_specific_updates[platform]
    ELSE <<>>

\* C5: for every platform of platform_updates, common_updates together with
\* the platform's entry of platform_specific_updates is, as a multiset, the
\* platform's update list -- also when a list holds a record twice.
C5_MultisetReconstruction ==
    Coalesced =>
        \A platform \in DOMAIN platform_updates :
            \A update \in Range(platform_updates[platform]) \cup Range(common_updates) :
                Count(update, common_updates) + Count(update, SpecificOf(platform))
                    = Count(update, platform_updates[platform])

\* The platform's update list without the records that equal a common one.
WithoutCommon(platform) ==
    SelectSeq(platform_updates[platform],
              LAMBDA update : ~Occurs(update, common_updates))

\* C6: after coalescing, the entry of every platform in
\* platform_specific_updates is its update list, in order, without the
\* records that equal a common update; the platform is a key exactly when
\* that list is not empty; so no record is in an entry and in common_updates.
C6_SpecificIsListWithoutCommon ==
    Coalesced =>
        /\ DOMAIN platform_specific_updates =
               {platform \in DOMAIN platform_updates : WithoutCommon(platform) # <<>>}
        /\ \A platform \in DOMAIN platform_specific_updates :
               /\ platform_specific_updates[platform] = WithoutCommon(platform)
               /\ \A i \in 1..Len(platform_specific_updates[platform]) :
                      ~Occurs(platform_specific_updates[platform][i], common_updates)

\* C6 witness: one platform keeps a record of its own next to a common
\* record, and another platform has updates, all common, and no entry.
C6_Witness ==
    /\ Coalesced
    /\ \E platform \in DOMAIN platform_specific_updates :
         Len(platform_specific_updates[platform]) < Len(platform_updates[platform])
    /\ \E platform \in DOMAIN platform_updates \ DOMAIN platform_specific_updates :
         platform_updates[platform] # <<>>

\* The run has ended with text output and one platform to check.
OnePlatformChecked ==
    /\ pc = "done"
    /\ Diffed
    /\ ~cli.json
    /\ Len(platforms_to_check) = 1

\* The lines printed are the updates of the list, in order and without a header.
PrintedFlat(list) ==
    /\ Len(stdout) = Len(list)
    /\ \A i \in 1..Len(list) :
           stdout[i].kind = "update" /\ stdout[i].updates = <<list[i]>>

AnswerFor(package) ==
    LET keys == {k \in DOMAIN oracle_log : IdentityOfKey(k) = IdentityOf(package)}
    IN  IF keys = {} THEN None
        ELSE LET result == oracle_log[CHOOSE k \in keys : TRUE][1].result
             IN  IF ~result.ok THEN None
                 ELSE IF package.kind = Pypi THEN Some(result.value)
                 ELSE result.value

\* The updates of a package list when every record is judged by the answer
\* to its own identity.
RECURSIVE UpdatesFromAnswers(_)
UpdatesFromAnswers(packages) ==
    IF packages = <<>> THEN <<>>
    ELSE LET package == Head(packages)
             latest  == AnswerFor(package)
         IN  (IF latest # None /\ latest[1] # package.version
              THEN <<PackageUpdate(package.name, package.version, latest[1])>>
              ELSE <<>>)
             \o UpdatesFromAnswers(Tail(packages))

\* The key has a lookup: it is a PyPI key or a conda key with a channel.
HasLookup(key) == key.kind = Pypi \/ key.channel # None

\* C8: a failed lookup of one identity stops nothing and touches no other
\* identity: in whatever order the keys are queried, the cache entry of a key
\* whose lookup succeeded is the answer to that key; when the loop has ended
\* every key was iterated over and every key with a lookup was looked up; and
\* the update lists are those that judge each record by the answer to its own
\* identity, so none for a record whose lookup failed.
C8_FailureIsolation ==
    /\ \A key \in DOMAIN oracle_log :
           oracle_log[key][1].result.ok =>
               /\ key \in DOMAIN version_cache
               /\ version_cache[key] =
                      IF key.kind = Pypi THEN Some(oracle_log[key][1].result.value)
                      ELSE oracle_log[key][1].result.value
    /\ Diffed =>
           /\ visited = DOMAIN unique_packages
           /\ \A key \in DOMAIN unique_packages : HasLookup(key) => key \in DOMAIN oracle_log
           /\ \A platform \in DOMAIN platform_packages :
                  platform_updates[platform] =
                      UpdatesFromAnswers(platform_packages[platform])

\* C8 witness: on one platform, the lookup of one identity failed, that of
\* another gave a version, and the platform's one update is of the other.
C8_Witness ==
    /\ Diffed
    /\ \E y, z \in DOMAIN oracle_log :
         /\ ~oracle_log[y][1].result.ok
         /\ oracle_log[z][1].result.ok
         /\ \E platform \in DOMAIN platform_packages :
              /\ {IdentityOfKey(y), IdentityOfKey(z)} \subseteq IdentitiesOn(platform)
              /\ Len(platform_updates[platform]) = 1
              /\ platform_updates[platform][1].latest_version = version_cache[z][1]

\* The cache entry stored for a lookup that succeeded with no version.
NoVersionEntry == CacheCondaResult(EmptyMap, "key", Ok(None))["key"]

RecordsWithoutChannel ==
    {package \in UNION {Range(platform_packages[platform]) :
                            platform \in DOMAIN platform_packages} :
         package.kind = Conda /\ IdentityOf(package)[2] = None}

\* C10 as stated: no key of unique_packages is a conda key without a channel.
C10_NoChannelNotPlanned ==
    Planned =>
        \A key \in DOMAIN unique_packages : ~(key.kind = Conda /\ key.channel = None)

\* C10 amended: a conda record without a channel is in unique_packages, under
\* the key (name, None, Conda); the key is never handed to the oracle.
C10_NoChannelPlannedNotQueried ==
    Planned =>
        \A package \in RecordsWithoutChannel :
            LET key == [name |-> package.name, channel |-> None, kind |-> Conda]
            IN  /\ key \in DOMAIN unique_packages
                /\ key \notin DOMAIN oracle_log

\* C10 witness: the run has ended and the query loop has iterated over the
\* key of a conda record without a channel.
C10_Witness ==
    /\ pc = "done"
    /\ Planned
    /\ \E package \in RecordsWithoutChannel :
         [name |-> package.name, channel |-> None, kind |-> Conda] \in visited

\* The key is a conda key without a channel.
WithoutChannel(key) == key.kind = Conda /\ key.channel = None

\* The package records of a list whose identity has an origin or is of PyPI.
WithOrigin(packages) ==
    SelectSeq(packages,
              LAMBDA package : ~(package.kind = Conda /\ IdentityOf(package)[2] = None))

\* The updates of a list by the cache: a record for each package with a
\* newer cached version, in the order of the list.
RECURSIVE NewerIn(_)
NewerIn(packages) ==
    IF packages = <<>> THEN <<>>
    ELSE (IF HasNewer(Head(packages))
          THEN <<PackageUpdate(Head(packages).name, Head(packages).version,
                               LatestFor(Head(packages)))>>
          ELSE <<>>)
         \o NewerIn(Tail(packages))

\* C11: a conda key without a channel is never looked up and never gets a
\* cache entry, and the update list of every platform is the list built from
\* its records with an origin alone: a record without a channel adds nothing.
C11_NoChannelNoLookupNoUpdate ==
    /\ \A key \in DOMAIN unique_packages :
           WithoutChannel(key) =>
               key \notin DOMAIN oracle_log /\ key \notin DOMAIN version_cache
    /\ \A key \in DOMAIN version_cache \cup DOMAIN oracle_log : ~WithoutChannel(key)
    /\ Diffed =>
           \A platform \in DOMAIN platform_packages :
               platform_updates[platform] = NewerIn(WithOrigin(platform_packages[platform]))

\* C11 witness: the query loop has passed the key of a conda record without
\* a channel; its platform lists it next to a record that has an update.
C11_Witness ==
    /\ Diffed
    /\ \E key \in visited : WithoutChannel(key)
    /\ \E platform \in DOMAIN platform_packages :
         /\ \E i \in 1..Len(platform_packages[platform]) :
                WithoutChannel(KeyOf(platform_packages[platform][i]))
         /\ Len(platform_updates[platform]) = 1

\* C12: diff and coalesce give one result for the cache and the package
\* lists: the update lists are those the cache gives, and the coalesced
\* report is the same for every order in which the keys of platform_updates
\* can be iterated, so for every choice of the reference platform.
C12_CoalesceDeterministic ==
    Coalesced =>
        /\ \A platform \in DOMAIN platform_packages :
               platform_updates[platform] = NewerIn(platform_packages[platform])
        /\ \A platforms \in Orders(DOMAIN platform_updates) :
               /\ common_updates = CommonUpdates(platform_updates, platforms)
               /\ platform_specific_updates =
                      PlatformSpecificUpdates(
                          platform_updates, CommonUpdates(platform_updates, platforms))

\* The cache entry that the answer of the oracle to a key gives.
EntryOfAnswer(key) ==
    LET result == oracle_log[key][1].result
    IN  IF ~result.ok THEN None
        ELSE IF key.kind = Pypi THEN Some(result.value)
        ELSE result.value

\* C13: the cache and the update lists do not depend on the order of the
\* lookups: in every state of the query loop the cache is the map from the
\* keys looked up so far to the entries their answers give, whatever was
\* looked up before or after, and the update lists built at the end are
\* those that the answers give for the package lists.
C13_QueryOrderIndependent ==
    /\ DOMAIN version_cache = {key \in visited : HasLookup(key)}
    /\ DOMAIN oracle_log = DOMAIN version_cache
    /\ \A key \in DOMAIN version_cache : version_cache[key] = EntryOfAnswer(key)
    /\ Diffed =>
           \A platform \in DOMAIN platform_packages :
               platform_updates[platform] =
                   UpdatesFromAnswers(platform_packages[platform])

\* C13 witness: two keys of one platform were looked up, with different
\* versions for an answer, and the platform has an update for each.
C13_Witness ==
    /\ Diffed
    /\ \E y, z \in DOMAIN version_cache :
         /\ y # z
         /\ version_cache[y] # None
         /\ version_cache[z] # None
         /\ version_cache[y] # version_cache[z]
         /\ \E platform \in DOMAIN platform_packages :
              /\ {IdentityOfKey(y), IdentityOfKey(z)} \subseteq IdentitiesOn(platform)
              /\ Len(platform_updates[platform]) = 2

\* The update is the one of the package record: its name, its installed
\* version, and the cached latest version of its identity.
UpdateIsOf(update, package) ==
    /\ update.name = package.name
    /\ update.installed_version = package.version
    /\ HasNewer(package)
    /\ update.latest_version = LatestFor(package)

\* C14: the update list of every platform maps into the platform's package
\* list by a strictly increasing map that sends every update to the package
\* record it is of: the updates are in package order, at most one for a record.
C14_UpdatesInPackageOrder ==
    Diffed =>
        \A platform \in DOMAIN platform_packages :
            LET updates  == platform_updates[platform]
                packages == platform_packages[platform]
            IN  \E from \in [1..Len(updates) -> 1..Len(packages)] :
                    /\ \A i, j \in 1..Len(updates) : i < j => from[i] < from[j]
                    /\ \A i \in 1..Len(updates) : UpdateIsOf(updates[i], packages[from[i]])

\* C14 witness: a platform with two updates that differ.
C14_Witness ==
    /\ Diffed
    /\ \E platform \in DOMAIN platform_packages :
         /\ Len(platform_updates[platform]) = 2
         /\ platform_updates[platform][1] # platform_updates[platform][2]

\* The platforms the listing loop has gone through.
ListedPlatforms == {platforms_to_check[i] : i \in 1..(list_idx - 1)}

\* The listing of the platform gives a package: its name parses, the lock
\* file holds packages for it, and one of them passes the name filter.
ListingSucceeds(platform) ==
    /\ PlatformParses(platform)
    /\ \E i \in 1..Len(LockedDeps(platform)) : PassesNameFilter(LockedDeps(platform)[i])

\* The updates that were printed, in a line or in the JSON document.
PrintedUpdates ==
    UNION {Range(stdout[i].updates) \cup
           UNION {Range(stdout[i].entries[j].updates) :
                      j \in 1..Len(stdout[i].entries)} :
               i \in 1..Len(stdout)}

\* C15: the platforms with an entry in platform_packages are the listed
\* platforms whose listing gave a package, only they get an entry of the
\* update map; the run ends with Ok; when a platform is left, every package
\* of it was planned and visited and every update of it is printed; when no
\* platform is left, no lookup is made and no update is printed.
C15_FailedPlatformDropped ==
    /\ DOMAIN platform_packages = {p \in ListedPlatforms : ListingSucceeds(p)}
    /\ DOMAIN platform_updates \subseteq DOMAIN platform_packages
    /\ Diffed => DOMAIN platform_updates = DOMAIN platform_packages
    /\ exit \in {"running", "Ok"}
    /\ pc = "done" =>
         /\ exit = "Ok"
         /\ \A platform \in DOMAIN platform_packages :
              /\ \A i \in 1..Len(platform_packages[platform]) :
                     IdentityOfKey(KeyOf(platform_packages[platform][i])) \in
                         {IdentityOfKey(key) : key \in visited}
              /\ platform_updates[platform] = NewerIn(platform_packages[platform])
              /\ Range(platform_updates[platform]) \subseteq PrintedUpdates
         /\ DOMAIN platform_packages = {} =>
              /\ DOMAIN oracle_log = {}
              /\ DOMAIN platform_updates = {}
              /\ PrintedUpdates = {}

\* C15 witness: a run over two platforms has ended, one platform was dropped
\* and an update of the other one is printed.
C15_Witness ==
    /\ pc = "done"
    /\ Len(platforms_to_check) = 2
    /\ Cardinality(DOMAIN platform_packages) = 1
    /\ \E platform \in DOMAIN platform_updates : platform_updates[platform] # <<>>
    /\ PrintedUpdates # {}

\* C16: every key that was looked up was looked up by one call; the call for
\* a conda key was handed the whole list of platforms to check, whichever
\* platforms hold the package, and the call for a PyPI key no platform.
C16_LookupPlatforms ==
    \A key \in DOMAIN oracle_log :
        /\ Len(oracle_log[key]) = 1
        /\ oracle_log[key][1].platforms =
               IF key.kind = Conda THEN platforms_to_check ELSE <<>>

\* C16 witness: two platforms are checked, a conda package that only one of
\* them holds was looked up, and so was a PyPI package.
C16_Witness ==
    /\ Len(platforms_to_check) = 2
    /\ \E key \in DOMAIN oracle_log :
         /\ key.kind = Conda
         /\ \E platform \in Range(platforms_to_check) :
                platform \notin DOMAIN platform_packages
                \/ IdentityOfKey(key) \notin IdentitiesOn(platform)
    /\ \E key \in DOMAIN oracle_log : key.kind = Pypi

\* The run has ended after printing JSON.
JsonPrinted == pc = "done" /\ Diffed /\ cli.json

\* C17: with --json the output is one document; its keys are the platforms
\* that have a package list, each once; the value of a platform is the whole
\* list of its updates, empty or not; nothing is coalesced.
C17_JsonUncoalesced ==
    JsonPrinted =>
        /\ Len(stdout) = 1
        /\ stdout[1].kind = "json"
        /\ LET entries == stdout[1].entries
           IN  /\ {entries[i].platform : i \in 1..Len(entries)} = DOMAIN platform_packages
               /\ Len(entries) = Cardinality(DOMAIN platform_packages)
               /\ \A i \in 1..Len(entries) :
                      /\ entries[i].updates = platform_updates[entries[i].platform]
                      /\ entries[i].updates =
                             NewerIn(platform_packages[entries[i].platform])
        /\ common_updates = <<>>
        /\ DOMAIN platform_specific_updates = {}

\* C17 witness: the JSON document of two platforms that have an update in
\* common.
C17_Witness ==
    /\ JsonPrinted
    /\ Cardinality(DOMAIN platform_updates) = 2
    /\ \E update \in PrintedUpdates :
           \A platform \in DOMAIN platform_updates :
               update \in Range(platform_updates[platform])

\* The run has ended after printing text.
TextPrinted == pc = "done" /\ Diffed /\ ~cli.json

\* The position of a platform in the list of platforms to check.
CheckedIndex(platform) ==
    CHOOSE i \in 1..Len(platforms_to_check) : platforms_to_check[i] = platform

\* The header of the common section is printed before every header of a
\* platform, and the headers of the platforms are in the order of the
\* platforms to check.
SectionsInCheckedOrder ==
    \A i, j \in 1..Len(stdout) :
        /\ (stdout[i].kind = "platform" /\ stdout[j].kind = "all-platforms") => j < i
        /\ (stdout[i].kind = "platform" /\ stdout[j].kind = "platform" /\ i < j) =>
               CheckedIndex(stdout[i].platform) < CheckedIndex(stdout[j].platform)

\* C18: in text output the common section comes before the sections of the
\* platforms, these are in the order of the platforms to check, and with
\* one platform checked the updates are printed as a flat list, no header.
C18_SectionOrderAndFlatSingle ==
    TextPrinted =>
        /\ SectionsInCheckedOrder
        /\ Len(platforms_to_check) = 1 =>
               PrintedFlat(platform_updates[platforms_to_check[1]])

\* The package records of all platforms.
AllRecords ==
    UNION {Range(platform_packages[platform]) : platform \in DOMAIN platform_packages}

\* Two conda records of the same name whose locations parse and share the
\* scheme, the host and the first path segment.
SameNameAndOrigin(a, b) ==
    /\ a.kind = Conda /\ b.kind = Conda
    /\ a.name = b.name
    /\ a.source[1].ok /\ b.source[1].ok
    /\ a.source[1].scheme = b.source[1].scheme
    /\ a.source[1].host # None /\ a.source[1].host = b.source[1].host
    /\ a.source[1].segs # None /\ b.source[1].segs # None
    /\ a.source[1].segs[1] # <<>> /\ b.source[1].segs[1] # <<>>
    /\ Head(a.source[1].segs[1]) = Head(b.source[1].segs[1])

\* C19: in a run that has ended, two conda records of the same name and
\* origin, on whichever platforms, have the same key, which is in the plan
\* and has one cache entry written by one lookup; a record whose location
\* does not parse has a key without a channel, and the run ended with Ok.
C19_IdentityPlatformIndependent ==
    (pc = "done" /\ Diffed) =>
        /\ exit = "Ok"
        /\ \A p, q \in DOMAIN platform_packages :
               \A i \in 1..Len(platform_packages[p]), j \in 1..Len(platform_packages[q]) :
                   LET a == platform_packages[p][i]
                       b == platform_packages[q][j]
                   IN  SameNameAndOrigin(a, b) =>
                           /\ KeyOf(a) = KeyOf(b)
                           /\ IdentityOf(a) = IdentityOf(b)
                           /\ KeyOf(a) \in DOMAIN unique_packages
                           /\ KeyOf(a) \in DOMAIN version_cache
                           /\ Len(oracle_log[KeyOf(a)]) = 1
        /\ \A p \in DOMAIN platform_packages :
               \A i \in 1..Len(platform_packages[p]) :
                   LET a == platform_packages[p][i]
                   IN  (a.kind = Conda /\ ~a.source[1].ok) =>
                           /\ KeyOf(a).channel = None
                           /\ KeyOf(a) \in DOMAIN unique_packages

\* C19 witness: x of conda-forge is locked with the linux-64 location on one
\* platform and the osx-arm64 location on the other, a package with a
\* location that does not parse is locked too, and the run has ended with
\* one cache entry.
C19_Witness ==
    /\ pc = "done"
    /\ \E p, q \in DOMAIN platform_packages :
         /\ p # q
         /\ \E a \in Range(platform_packages[p]), b \in Range(platform_packages[q]) :
              /\ a.kind = Conda /\ b.kind = Conda
              /\ a.source = Some(UrlForgeLinux)
              /\ b.source = Some(UrlForgeOsx)
    /\ \E a \in AllRecords : a.kind = Conda /\ ~a.source[1].ok
    /\ Cardinality(DOMAIN version_cache) = 1

\* The lock file the call reads: pixi.lock beside the manifest, or in the
\* working directory when no manifest is given.
LockfileOfCall ==
    lockfile_call.files[
        IF lockfile_call.manifest_path = None THEN <<"pixi.lock">>
        ELSE SubSeq(lockfile_call.manifest_path[1], 1,
                    Len(lockfile_call.manifest_path[1]) - 1) \o <<"pixi.lock">>]

\* The environment the call asks for.
EnvironmentOfCall ==
    IF lockfile_call.environment = None THEN "default"
    ELSE lockfile_call.environment[1]

\* The manifest path, when given, has a parent directory.
HasManifestDir ==
    lockfile_call.manifest_path = None \/ lockfile_call.manifest_path[1] # <<>>

\* C20: get_platforms_from_lockfile returns an error when the lock file is
\* missing or is not a lock file, when the environment asked for ("default"
\* when none is given) is not in it, and when that environment has no
\* platform; a list returned with Ok is not empty.
C20_LockfilePlatforms ==
    lockfile_result # None =>
        /\ HasManifestDir =>
             /\ LockfileOfCall.state # "parsed" => ~lockfile_result[1].ok
             /\ (/\ LockfileOfCall.state = "parsed"
                 /\ EnvironmentOfCall \notin DOMAIN LockfileOfCall.environments)
                    => ~lockfile_result[1].ok
             /\ (/\ LockfileOfCall.state = "parsed"
                 /\ EnvironmentOfCall \in DOMAIN LockfileOfCall.environments
                 /\ LockfileOfCall.environments[EnvironmentOfCall] = <<>>)
                    => ~lockfile_result[1].ok
        /\ lockfile_result[1].ok => lockfile_result[1].platforms # <<>>

\* C20 witness: the call has returned for a lock file whose environment
\* "default", asked for by giving no name, has no platform.
C20_Witness ==
    /\ lockfile_result # None
    /\ HasManifestDir
    /\ lockfile_call.environment = None
    /\ LockfileOfCall.state = "parsed"
    /\ "default" \in DOMAIN LockfileOfCall.environments
    /\ LockfileOfCall.environments["default"] = <<>>
    /\ ~lockfile_result[1].ok

\* The package records of the platforms, in the order the planner goes
\* through them when it takes the platforms in the given order.
RECURSIVE RecordsInOrder(_)
RecordsInOrder(order) ==
    IF order = <<>> THEN <<>>
    ELSE platform_packages[Head(order)] \o RecordsInOrder(Tail(order))

\* The first record of the list that has the key.
FirstWithKey(records, key) ==
    records[CHOOSE i \in 1..Len(records) :
                /\ KeyOf(records[i]) = key
                /\ \A j \in 1..(i - 1) : KeyOf(records[j]) # key]

\* C21: the version the plan holds for a key is the installed version of the
\* first record with that key, for an order in which the platforms were
\* gone through; and the update lists are built from each platform's own
\* records: the installed version of an update is that of its record.
C21_PlanVersionFirstSeenUnused ==
    Planned =>
        /\ \E order \in Orders(DOMAIN platform_packages) :
               \A key \in DOMAIN unique_packages :
                   unique_packages[key] =
                       FirstWithKey(RecordsInOrder(order), key).version
        /\ Diffed =>
               \A platform \in DOMAIN platform_packages :
                   platform_updates[platform] = NewerIn(platform_packages[platform])

\* C21 witness: two platforms hold different installed versions of one
\* identity, and each has an update with its own installed version.
C21_Witness ==
    /\ Diffed
    /\ \E p, q \in DOMAIN platform_updates :
         \E i \in 1..Len(platform_updates[p]), j \in 1..Len(platform_updates[q]) :
             /\ p # q
             /\ platform_updates[p][i].name = platform_updates[q][j].name
             /\ platform_updates[p][i].installed_version = "1.0"
             /\ platform_updates[q][j].installed_version = "2.0"
             /\ platform_packages[p] =
                    <<ToPixiPackage([name |-> "x", version |-> "1.0", kind |-> Conda,
                                     location |-> UrlForgeLinux])>>
             /\ platform_packages[q] =
                    <<ToPixiPackage([name |-> "x", version |-> "2.0", kind |-> Conda,
                                     location |-> UrlForgeOsx])>>

\* The triples that are in the update list of every platform of the map.
TriplesOfAll ==
    {update \in UNION {Range(platform_updates[p]) : p \in DOMAIN platform_updates} :
         \A p \in DOMAIN platform_updates : update \in Range(platform_updates[p])}

\* C22 as stated: whichever platform of the update map is the reference,
\* the triples of the common updates are those in the list of every
\* platform of the map, and so are the triples of common_updates.
C22_CommonTriplesAreIntersection ==
    Coalesced =>
        /\ Range(common_updates) = TriplesOfAll
        /\ \A platforms \in Orders(DOMAIN platform_updates) :
               Range(CommonUpdates(platform_updates, platforms)) = TriplesOfAll

\* C22 amended: the same when the update map holds two platforms or more;
\* when it holds one platform the common updates are empty.
C22_CommonTriplesOfSeveral ==
    Coalesced =>
        IF Cardinality(DOMAIN platform_updates) >= 2
        THEN /\ Range(common_updates) = TriplesOfAll
             /\ \A platforms \in Orders(DOMAIN platform_updates) :
                    Range(CommonUpdates(platform_updates, platforms)) = TriplesOfAll
        ELSE /\ common_updates = <<>>
             /\ \A platforms \in Orders(DOMAIN platform_updates) :
                    CommonUpdates(platform_updates, platforms) = <<>>

\* C22 witness: two platforms with different sets of triples that share one.
C22_Witness ==
    /\ Coalesced
    /\ \E p, q \in DOMAIN platform_updates :
         /\ Range(platform_updates[p]) # Range(platform_updates[q])
         /\ Range(platform_updates[p]) \cap Range(platform_updates[q]) # {}
    /\ common_updates # <<>>

\* A step leaves every cache entry as it is, and writes the cache in the
\* query phase only.
CacheWrittenOnce ==
    /\ \A key \in DOMAIN version_cache :
           key \in DOMAIN version_cache' /\ version_cache'[key] = version_cache[key]
    /\ pc # "query" => version_cache' = version_cache
    /\ pc' # "query" => version_cache' = version_cache

\* The update lists carry, for every record, the latest version of the one
\* cache entry of the record's identity.
LatestByIdentity ==
    Diffed =>
        /\ \A k1, k2 \in DOMAIN version_cache :
               IdentityOfKey(k1) = IdentityOfKey(k2) => k1 = k2
        /\ \A platform \in DOMAIN platform_packages :
               platform_updates[platform] = NewerIn(platform_packages[platform])

\* C23: the latest version of an update is that of the cache entry of its
\* record's identity, the same for every record of the identity on every
\* platform; a cache entry is written once, in the query phase, and no step
\* of diff, coalescing or output changes the cache.
C23_LatestPerIdentityWrittenOnce ==
    [] LatestByIdentity /\ [][CacheWrittenOnce]_vars

\* C23 witness: the run has ended; two platforms hold records of one
\* identity with different installed versions, and both updates carry the
\* latest version of the one cache entry.
C23_Witness ==
    /\ pc = "done"
    /\ Cardinality(DOMAIN version_cache) = 1
    /\ \E p, q \in DOMAIN platform_updates :
         /\ p # q
         /\ Len(platform_updates[p]) = 1 /\ Len(platform_updates[q]) = 1
         /\ IdentitiesOn(p) = IdentitiesOn(q)
         /\ platform_updates[p][1].installed_version
                # platform_updates[q][1].installed_version
         /\ platform_updates[p][1].latest_version
                = platform_updates[q][1].latest_version

\* The platforms to check that were not dropped in listing: the platforms
\* of a run in which the dropped ones are not asked for.
RemainingPlatforms ==
    SelectSeq(platforms_to_check, LAMBDA p : p \in DOMAIN platform_packages)

\* The cache of the run in which the dropped platforms are not asked for:
\* the conda lookups are handed the remaining platforms and find the same
\* remote repodata; the PyPI lookups are the same.
CacheWithoutDropped ==
    [key \in DOMAIN version_cache |->
         IF key.kind = Conda
         THEN CacheCondaResult(
                  EmptyMap, key,
                  get_latest_conda_version_multi_platform(
                      key.name, key.channel[1], RemainingPlatforms,
                      oracle_log[key][1].reply))[key]
         ELSE version_cache[key]]

\* C24: the update list of every platform that was not dropped is the list
\* of the run in which the dropped platforms are not asked for.
C24_DroppedPlatformNoInfluence ==
    Diffed =>
        \A platform \in DOMAIN platform_packages :
            platform_updates[platform] =
                PlatformPackageUpdates(CacheWithoutDropped, platform_packages[platform])

====
